---- MODULE Spec2Model ----
(***************************************************************************)
(* Model of the to-do backend in src/backend/index.js: an Express service  *)
(* whose six routes forward to a Mongoose model "Task".                    *)
(*                                                                         *)
(* JSON values are encoded as tagged strings:                              *)
(*   "undefined"  the key is absent from the body                          *)
(*   "null"       JSON null                                                *)
(*   "s:..."      a JSON string ("s:" is the empty string)                 *)
(*   "n:7"        the JSON number 7                                        *)
(*   "true" / "false"  JSON booleans                                       *)
(*   "d:1", "d:2" date strings that parse to 1 ms and 2 ms of the model    *)
(*                clock                                                    *)
(* A Date held in a document is a record [isNull, ms].                     *)
(* An ObjectId is a positive integer; the path id 0 stands for any path    *)
(* segment that is not a well-formed ObjectId.                             *)
(***************************************************************************)
EXTENDS Naturals, Sequences, FiniteSets

VARIABLES
  store,      \* the Task collection: a set of documents, one per id
  pending,    \* documents built by POST handlers that have not saved yet
  nextId,     \* the next ObjectId the driver hands out
  now,        \* Date.now()
  resp,       \* the response sent last
  saved,      \* history: [id, at] of every task inserted, in insertion order
  deleted,    \* history: the ids whose delete request succeeded
  inflight,   \* requests received whose store call has not run yet
  done        \* history: the requests of inflight that were answered

vars == <<store, pending, nextId, now, resp, saved, deleted, inflight, done>>

\* ---------------------------------------------------------------- bounds
MaxTasks == 2
MaxClock == 1
MaxRequests == 2
MaxConcTasks == 1

\* ---------------------------------------------------------------- inputs
TitleIn == {"undefined", "s:", "n:7"}
DescIn == {"null", "s:D"}
DueIn == {"undefined", "s:x", "d:1", "d:2"}
CompletedIn == {"undefined", "true", "false", "s:yes", "s:maybe"}
PathIds == 0..MaxTasks
SortIn == {"undefined", "dueDate", "dateCreated"}

\* A create body may carry the extra keys completed and dateCreated.
CreateBodies ==
  [title : TitleIn, description : DescIn, dueDate : DueIn,
   completed : {"undefined"}, dateCreated : {"undefined"}]
  \cup [title : TitleIn, description : DescIn, dueDate : DueIn,
        completed : {"true"}, dateCreated : {"d:2"}]
UpdateBodies == [title : TitleIn, description : DescIn, dueDate : DueIn]
CompleteBodies == [completed : CompletedIn]

\* ---------------------------------------------------------------- values
Date(ms) == [isNull |-> FALSE, ms |-> ms]
NullDate == [isNull |-> TRUE, ms |-> 0]

\* BSON comparison order on a Date field: null sorts before every date.
BsonLeq(a, b) == a.isNull \/ (~b.isNull /\ a.ms <= b.ms)

\* Mongoose SchemaString cast: strings stay, numbers become their decimal
\* text, null and undefined pass through.
CastString(v) == IF v = "n:7" THEN "s:7" ELSE v

\* Mongoose SchemaDate cast: "CastError" for a string that is no date; null
\* and undefined give no date.
DateCastable(v) == v # "s:x"
CastDate(v) ==
  CASE v = "d:1" -> Date(1)
    [] v = "d:2" -> Date(2)
    [] v = "null" -> NullDate
    [] OTHER -> NullDate

\* Mongoose SchemaBoolean cast: convertToTrue / convertToFalse sets, null
\* passes through, anything else is a CastError.
BoolCastable(v) == v # "s:maybe"
CastBoolean(v) ==
  CASE v \in {"true", "s:yes"} -> "true"
    [] v = "false" -> "false"
    [] OTHER -> v

IsObjectId(id) == id >= 1

\* `required: true` validators of taskSchema.
RequiredString(v) == v \notin {"undefined", "null", "s:"}
RequiredDate(d) == ~d.isNull

ById(st, id) == {t \in st : t.id = id}

\* ---------------------------------------------------------------- responses
\* res.status(status).json({message, task}) ; `message` tells whether the
\* body carries a "message" key, `tasks` the task(s) in the body.
Json(route, status, tasks) ==
  [route |-> route, status |-> status, message |-> TRUE, tasks |-> tasks]
\* res.json(tasks): a bare array.
JsonArray(route, tasks) ==
  [route |-> route, status |-> 200, message |-> FALSE, tasks |-> tasks]
\* What a handler whose promise rejects leaves behind: no response at all
\* (status 0, Express 4), or the framework's own 500 page (Express 5).
Rejected(route) ==
  {[route |-> route, status |-> 0, message |-> FALSE, tasks |-> <<>>],
   [route |-> route, status |-> 500, message |-> FALSE, tasks |-> <<>>]}
NoResp == [route |-> "none", status |-> 0, message |-> FALSE, tasks |-> <<>>]

\* ---------------------------------------------------------------- store
\* An update document: keys whose value is undefined are dropped by Mongoose
\* (6 and later) before the update is sent, the others are $set.  Update
\* validators are off unless runValidators is passed, and no handler passes
\* it: `required` is not checked on this path.
NoUpdate ==
  [title |-> "undefined", description |-> "undefined",
   dueDate |-> [set |-> FALSE, val |-> NullDate], completed |-> "undefined"]

SetDocReplace(t, u) ==
  [t EXCEPT !.title = u.title,
            !.description = u.description,
            !.dueDate = u.dueDate.val,
            !.completed = IF u.completed = "undefined" THEN "false" ELSE u.completed]

SetDoc(t, u) ==
  [t EXCEPT !.title = IF u.title = "undefined" THEN @ ELSE u.title,
            !.description = IF u.description = "undefined" THEN @ ELSE u.description,
            !.dueDate = IF u.dueDate.set THEN u.dueDate.val ELSE @,
            !.completed = IF u.completed = "undefined" THEN @ ELSE u.completed]

\* Task.findByIdAndUpdate(id, update, {new: true}): one atomic
\* findOneAndUpdate. err: the id or the update could not be cast, or the
\* store call failed; doc: the document after the update, if one matched.
FindByIdAndUpdateOld(st, id, u, castable, ok) ==
  IF ~IsObjectId(id) \/ ~castable \/ ~ok
  THEN [err |-> TRUE, doc |-> {}, store |-> st]
  ELSE [err |-> FALSE,
        doc |-> ById(st, id),
        store |-> (st \ ById(st, id)) \cup {SetDoc(t, u) : t \in ById(st, id)}]

FindByIdAndUpdate(st, id, u, castable, ok) ==
  IF ~IsObjectId(id) \/ ~castable \/ ~ok
  THEN [err |-> TRUE, doc |-> {}, store |-> st]
  ELSE [err |-> FALSE,
        doc |-> {SetDoc(t, u) : t \in ById(st, id)},
        store |-> (st \ ById(st, id)) \cup {SetDoc(t, u) : t \in ById(st, id)}]

\* Task.findByIdAndDelete(id): doc is the document removed, if one matched.
FindByIdAndDelete(st, id, ok) ==
  IF ~IsObjectId(id) \/ ~ok
  THEN [err |-> TRUE, doc |-> {}, store |-> st]
  ELSE [err |-> FALSE, doc |-> ById(st, id), store |-> st \ ById(st, id)]

TheDoc(S) == CHOOSE t \in S : TRUE

\* ---------------------------------------------------------------- sorting
RECURSIVE Perms(_)
Perms(S) ==
  IF S = {} THEN {<<>>}
  ELSE UNION {{<<t>> \o q : q \in Perms(S \ {t})} : t \in S}

SortOptionDueDateOnly(sortBy) ==
  IF sortBy = "dueDate" THEN "dueDate" ELSE "none"

SortOption(sortBy) ==
  IF sortBy = "dueDate" THEN "dueDate"
  ELSE IF sortBy = "dateCreated" THEN "dateCreated"
  ELSE "none"

Descending(q, field) ==
  \A i, j \in 1..Len(q) :
    i < j =>
      CASE field = "dueDate" -> BsonLeq(q[j].dueDate, q[i].dueDate)
        [] field = "dateCreated" -> q[j].dateCreated <= q[i].dateCreated
        [] OTHER -> TRUE

Ascending(q, field) ==
  \A i, j \in 1..Len(q) :
    i < j =>
      CASE field = "dueDate" -> BsonLeq(q[i].dueDate, q[j].dueDate)
        [] field = "dateCreated" -> q[i].dateCreated <= q[j].dateCreated
        [] OTHER -> TRUE

\* Task.find({}).sort(sortOption): every document once, ascending in the
\* sort field; documents with equal keys come in an order the store picks.
FindSorted(st, sortOption) == {q \in Perms(st) : Ascending(q, sortOption)}

\* ---------------------------------------------------------------- state
Init ==
  /\ store = {}
  /\ pending = {}
  /\ nextId = 1
  /\ now = 0
  /\ resp = NoResp
  /\ saved = <<>>
  /\ deleted = {}
  /\ inflight = {}
  /\ done = {}

\* Date.now() advances between requests (or does not: two requests can fall
\* in the same millisecond).
Tick ==
  /\ now < MaxClock
  /\ now' = now + 1
  /\ UNCHANGED <<store, pending, nextId, resp, saved, deleted, inflight, done>>

\* ---------------------------------------------------------------- handlers
\* Every handler is written as its outcome -- the store it leaves and the
\* response it sends, as a function of the store and the request -- and as
\* the action that applies the outcome.  `ok` tells whether the store serves
\* the call the handler makes.

\* GET /api/tasks: the responses the handler can send.
ListOutcomes(st, sortBy, ok) ==
  IF ok
  THEN {JsonArray("list", q) : q \in FindSorted(st, SortOption(sortBy))}
  ELSE {Json("list", 500, <<>>)}

ListTasks(sortBy, ok) ==
  /\ resp' \in ListOutcomes(store, sortBy, ok)
  /\ UNCHANGED <<store, pending, nextId, now, saved, deleted, inflight, done>>

\* POST /api/tasks/todo, up to the await: new Task(taskData) assigns the
\* ObjectId, applies the defaults and casts the fields it is given.
TaskDataWholeBody(body) == body

TaskData(body) ==
  [title |-> body.title, description |-> body.description,
   dueDate |-> body.dueDate, completed |-> "undefined",
   dateCreated |-> "undefined"]

NewTask(data, id, clock) ==
  [doc |-> [id |-> id,
            title |-> CastString(data.title),
            description |-> CastString(data.description),
            dueDate |-> CastDate(data.dueDate),
            dateCreated |-> IF data.dateCreated = "undefined" THEN clock
                            ELSE CastDate(data.dateCreated).ms,
            completed |-> IF data.completed = "undefined" THEN "false"
                          ELSE CastBoolean(data.completed)],
   valid |-> /\ RequiredString(CastString(data.title))
             /\ RequiredString(CastString(data.description))
             /\ DateCastable(data.dueDate)
             /\ RequiredDate(CastDate(data.dueDate))
             /\ BoolCastable(data.completed),
   at |-> clock]

LowestFreeObjectId ==
  CHOOSE i \in 1..nextId :
    /\ i \notin {t.id : t \in store} \cup {p.doc.id : p \in pending}
    /\ \A j \in 1..(i - 1) :
         j \in {t.id : t \in store} \cup {p.doc.id : p \in pending}

\* new ObjectId(): timestamp, process-unique value and counter make every
\* id the driver generates differ from all earlier ones.
NewObjectId == nextId

CreateBegin(body) ==
  /\ nextId <= MaxTasks
  /\ pending' = pending \cup {NewTask(TaskData(body), NewObjectId, now)}
  /\ nextId' = nextId + 1
  /\ UNCHANGED <<store, now, resp, saved, deleted, inflight, done>>

\* POST /api/tasks/todo, from the await on: save() validates and inserts;
\* the catch block reads the undeclared name `err`, so the handler's promise
\* rejects before res.status(500) is reached.
CreateOutcomes(st, p, ok) ==
  IF p.valid /\ ok
  THEN {[store |-> st \cup {p.doc}, resp |-> Json("create", 200, <<p.doc>>)]}
  ELSE {[store |-> st, resp |-> r] : r \in Rejected("create")}

CreateSave(p, ok) ==
  /\ p \in pending
  /\ pending' = pending \ {p}
  /\ \E o \in CreateOutcomes(store, p, ok) :
       /\ store' = o.store
       /\ resp' = o.resp
       /\ saved' = IF o.resp.status = 200
                   THEN Append(saved, [id |-> p.doc.id, at |-> p.at])
                   ELSE saved
  /\ UNCHANGED <<nextId, now, deleted, inflight, done>>

\* The three branches every :id handler ends in.
Answered(route, r) ==
  [store |-> r.store,
   resp |-> IF r.err THEN Json(route, 500, <<>>)
            ELSE IF r.doc = {} THEN Json(route, 404, <<>>)
            ELSE Json(route, 200, <<TheDoc(r.doc)>>)]

\* PATCH /api/tasks/complete/:id
CompleteOutcome(st, id, body, ok) ==
  Answered("complete",
           FindByIdAndUpdate(st, id,
             [NoUpdate EXCEPT !.completed = CastBoolean(body.completed)],
             BoolCastable(body.completed), ok))

CompleteTaskHandler(id, body, ok) ==
  /\ store' = CompleteOutcome(store, id, body, ok).store
  /\ resp' = CompleteOutcome(store, id, body, ok).resp
  /\ UNCHANGED <<pending, nextId, now, saved, deleted>>

\* PATCH /api/tasks/notComplete/:id
NotCompleteOutcome(st, id, body, ok) ==
  Answered("notComplete",
           FindByIdAndUpdate(st, id,
             [NoUpdate EXCEPT !.completed = CastBoolean(body.completed)],
             BoolCastable(body.completed), ok))

NotCompleteTaskHandler(id, body, ok) ==
  /\ store' = NotCompleteOutcome(store, id, body, ok).store
  /\ resp' = NotCompleteOutcome(store, id, body, ok).resp
  /\ UNCHANGED <<pending, nextId, now, saved, deleted>>

\* DELETE /api/tasks/delete/:id
DeleteOutcome(st, id, ok) == Answered("delete", FindByIdAndDelete(st, id, ok))

DeleteTaskHandler(id, ok) ==
  /\ store' = DeleteOutcome(store, id, ok).store
  /\ resp' = DeleteOutcome(store, id, ok).resp
  /\ deleted' = IF DeleteOutcome(store, id, ok).resp.status = 200
                THEN deleted \cup {id} ELSE deleted
  /\ UNCHANGED <<pending, nextId, now, saved>>

\* PUT /api/tasks/update/:id
UpdateDataNoDescription(body) ==
  [NoUpdate EXCEPT !.title = CastString(body.title),
                   !.dueDate = [set |-> body.dueDate # "undefined",
                                val |-> CastDate(body.dueDate)]]

UpdateData(body) ==
  [NoUpdate EXCEPT !.title = CastString(body.title),
                   !.description = CastString(body.description),
                   !.dueDate = [set |-> body.dueDate # "undefined",
                                val |-> CastDate(body.dueDate)]]

UpdateOutcome(st, id, body, ok) ==
  Answered("update",
           FindByIdAndUpdate(st, id, UpdateData(body),
                             DateCastable(body.dueDate), ok))

UpdateTaskHandler(id, body, ok) ==
  /\ store' = UpdateOutcome(store, id, body, ok).store
  /\ resp' = UpdateOutcome(store, id, body, ok).resp
  /\ UNCHANGED <<pending, nextId, now, saved, deleted>>

\* ------------------------------------------------- requests one at a time
CompleteTask(id, body, ok) ==
  CompleteTaskHandler(id, body, ok) /\ UNCHANGED <<inflight, done>>

NotCompleteTask(id, body, ok) ==
  NotCompleteTaskHandler(id, body, ok) /\ UNCHANGED <<inflight, done>>

DeleteTask(id, ok) ==
  DeleteTaskHandler(id, ok) /\ UNCHANGED <<inflight, done>>

UpdateTask(id, body, ok) ==
  UpdateTaskHandler(id, body, ok) /\ UNCHANGED <<inflight, done>>

Next ==
  \/ Tick
  \/ \E sortBy \in SortIn, ok \in BOOLEAN : ListTasks(sortBy, ok)
  \/ \E body \in CreateBodies : CreateBegin(body)
  \/ \E p \in pending, ok \in BOOLEAN : CreateSave(p, ok)
  \/ \E id \in PathIds, body \in CompleteBodies, ok \in BOOLEAN :
       CompleteTask(id, body, ok)
  \/ \E id \in PathIds, body \in CompleteBodies, ok \in BOOLEAN :
       NotCompleteTask(id, body, ok)
  \/ \E id \in PathIds, ok \in BOOLEAN : DeleteTask(id, ok)
  \/ \E id \in PathIds, body \in UpdateBodies, ok \in BOOLEAN :
       UpdateTask(id, body, ok)

Spec == Init /\ [][Next]_vars

\* ------------------------------------------------- requests that overlap
\* Express starts a handler per request; each handler runs up to its await,
\* and the store call of any handler in flight may be the next to run.  In
\* this specification the store serves every call.
Request(route, id, body) == [route |-> route, id |-> id, body |-> body]

NoBody == [title |-> "undefined", description |-> "undefined",
           dueDate |-> "undefined", completed |-> "undefined"]

Receive(r) ==
  /\ Cardinality(inflight) + Cardinality(done) < MaxRequests
  /\ r \notin inflight
  /\ inflight' = inflight \cup {r}
  /\ UNCHANGED <<store, pending, nextId, now, resp, saved, deleted, done>>

ReceiveComplete(id, body) ==
  Receive(Request("complete", id, [NoBody EXCEPT !.completed = body.completed]))

ReceiveNotComplete(id, body) ==
  Receive(Request("notComplete", id, [NoBody EXCEPT !.completed = body.completed]))

ReceiveDelete(id) == Receive(Request("delete", id, NoBody))

ReceiveUpdate(id, body) ==
  Receive(Request("update", id,
                  [NoBody EXCEPT !.title = body.title,
                                 !.description = body.description,
                                 !.dueDate = body.dueDate]))

\* The store call of request r runs and r is answered.
Answer(r) ==
  /\ r \in inflight
  /\ CASE r.route = "complete" -> CompleteTaskHandler(r.id, r.body, TRUE)
       [] r.route = "notComplete" -> NotCompleteTaskHandler(r.id, r.body, TRUE)
       [] r.route = "delete" -> DeleteTaskHandler(r.id, TRUE)
       [] OTHER -> UpdateTaskHandler(r.id, r.body, TRUE)
  /\ inflight' = inflight \ {r}
  /\ done' = done \cup {[req |-> r, resp |-> resp',
                         existed |-> ById(store, r.id) # {},
                         overlapped |-> inflight # {r}]}

ConcCreateBegin(body) == nextId <= MaxConcTasks /\ CreateBegin(body)

NextConc ==
  \/ \E body \in CreateBodies : ConcCreateBegin(body)
  \/ \E p \in pending : CreateSave(p, TRUE)
  \/ \E id \in PathIds, body \in CompleteBodies : ReceiveComplete(id, body)
  \/ \E id \in PathIds, body \in CompleteBodies : ReceiveNotComplete(id, body)
  \/ \E id \in PathIds : ReceiveDelete(id)
  \/ \E id \in PathIds, body \in UpdateBodies : ReceiveUpdate(id, body)
  \/ \E r \in inflight : Answer(r)

SpecConc == Init /\ [][NextConc]_vars


\* ================================================================ claims
\* A claim about what a request does is stated of the handler's outcome in
\* every reachable state and for every request of the input sets.
Ids(st) == {t.id : t \in st}
SavedIds == {saved[i].id : i \in 1..Len(saved)}
WellTypedCompleted(body) == body.completed \in {"true", "false"}
SetRoutes == {"complete", "notComplete"}

\* C1: after any sequence of create, set-completion, update and delete
\* requests with arbitrary bodies, every stored task has an id, a non-empty
\* title, a non-empty description, a dueDate, a dateCreated and a boolean
\* completed.
C1_AllFieldsPopulated ==
  \A t \in store :
    /\ IsObjectId(t.id)
    /\ RequiredString(t.title)
    /\ RequiredString(t.description)
    /\ RequiredDate(t.dueDate)
    /\ t.dateCreated \in Nat
    /\ t.completed \in {"true", "false"}

C3_UpdateFrame ==
  \A old \in store, body \in UpdateBodies, ok \in BOOLEAN :
    LET o == UpdateOutcome(store, old.id, body, ok)
    IN IF ok /\ DateCastable(body.dueDate)
       THEN /\ o.resp.status = 200
            /\ Len(o.resp.tasks) = 1
            /\ o.resp.tasks[1] \in o.store
            /\ o.store \ {o.resp.tasks[1]} = store \ {old}
            /\ o.resp.tasks[1].id = old.id
            /\ o.resp.tasks[1].dateCreated = old.dateCreated
            /\ o.resp.tasks[1].completed = old.completed
            /\ o.resp.tasks[1].title =
                 IF body.title = "undefined" THEN old.title
                 ELSE CastString(body.title)
            /\ o.resp.tasks[1].description =
                 IF body.description = "undefined" THEN old.description
                 ELSE CastString(body.description)
            /\ o.resp.tasks[1].dueDate =
                 IF body.dueDate = "undefined" THEN old.dueDate
                 ELSE CastDate(body.dueDate)
       ELSE o.store = store /\ o.resp.status = 500

\* C3 witness: an update was answered 200 with the title and description it
\* supplied, on a completed task, while a second task is in the store.
C3_Witness ==
  /\ resp.route = "update"
  /\ resp.status = 200
  /\ resp.tasks[1].title = "s:"
  /\ resp.tasks[1].description = "null"
  /\ resp.tasks[1].completed = "true"
  /\ resp.tasks[1] \in store
  /\ Cardinality(store) = 2

\* C4: a create request whose title, description or dueDate is missing, or
\* whose save fails in the store, ends with a 500 response carrying a
\* message, and no task is added to the store.
C4_FailedCreateAnswers500 ==
  /\ \A p \in pending, ok \in BOOLEAN :
       ~(p.valid /\ ok) =>
         \A o \in CreateOutcomes(store, p, ok) : o.store = store
  /\ (resp.route = "create" /\ resp.status # 200) =>
       (resp.status = 500 /\ resp.message)

\* C5: set-completion (both routes), update and delete on an id that matches
\* no stored task answer 404, never 500, for every id the path can carry,
\* and leave the store unchanged.  Stated for the requests most favourable
\* to the claim: the body casts and the store call is served.
C5_NoMatchIs404 ==
  \A id \in PathIds :
    ById(store, id) = {} =>
      /\ \A body \in CompleteBodies :
           BoolCastable(body.completed) =>
             /\ CompleteOutcome(store, id, body, TRUE).resp.status = 404
             /\ NotCompleteOutcome(store, id, body, TRUE).resp.status = 404
             /\ CompleteOutcome(store, id, body, TRUE).store = store
             /\ NotCompleteOutcome(store, id, body, TRUE).store = store
      /\ \A body \in UpdateBodies :
           DateCastable(body.dueDate) =>
             /\ UpdateOutcome(store, id, body, TRUE).resp.status = 404
             /\ UpdateOutcome(store, id, body, TRUE).store = store
      /\ DeleteOutcome(store, id, TRUE).resp.status = 404
      /\ DeleteOutcome(store, id, TRUE).store = store

\* C6: every successful create returns a task with a well-formed id that no
\* task inserted before it (deleted ones included) ever had, with completed
\* false and with dateCreated the time the request built it, not later than
\* now, whatever extra keys (completed, dateCreated) the body carries.
C6_CreatedTask ==
  \A p \in pending, ok \in BOOLEAN :
    \A o \in CreateOutcomes(store, p, ok) :
      /\ (p.valid /\ ok) => o.resp.status = 200
      /\ o.resp.status = 200 =>
           /\ Len(o.resp.tasks) = 1
           /\ o.resp.tasks[1] \in o.store
           /\ IsObjectId(o.resp.tasks[1].id)
           /\ o.resp.tasks[1].id \notin SavedIds \cup Ids(store) \cup deleted
           /\ \A q \in pending \ {p} : q.doc.id # o.resp.tasks[1].id
           /\ o.resp.tasks[1].completed = "false"
           /\ o.resp.tasks[1].dateCreated = p.at
           /\ o.resp.tasks[1].dateCreated <= now

\* C6 witness: a create succeeded, some time after the request was built,
\* after an earlier task had been deleted.
C6_Witness ==
  /\ resp.route = "create"
  /\ resp.status = 200
  /\ Len(saved) = 2
  /\ deleted # {}
  /\ resp.tasks[1].id \notin deleted
  /\ resp.tasks[1].dateCreated < now

\* C7: a served list request returns exactly the stored tasks, each once;
\* with sortBy=dueDate non-decreasing in dueDate, with sortBy=dateCreated
\* non-decreasing in dateCreated; on an empty store it answers 200 with an
\* empty sequence.
IsListing(q, st) ==
  /\ Len(q) = Cardinality(st)
  /\ {q[i] : i \in 1..Len(q)} = st

C7_ListSorted ==
  \A sortBy \in SortIn :
    /\ ListOutcomes(store, sortBy, TRUE) # {}
    /\ \A r \in ListOutcomes(store, sortBy, TRUE) :
         /\ r.status = 200
         /\ IsListing(r.tasks, store)
         /\ store = {} => r.tasks = <<>>
         /\ sortBy = "dueDate" =>
              \A i \in 1..Len(r.tasks) : \A j \in 1..Len(r.tasks) :
                j = i + 1 => BsonLeq(r.tasks[i].dueDate, r.tasks[j].dueDate)
         /\ sortBy = "dateCreated" =>
              \A i \in 1..Len(r.tasks) : \A j \in 1..Len(r.tasks) :
                j = i + 1 => r.tasks[i].dateCreated <= r.tasks[j].dateCreated

\* C7 witness: a list answered with two tasks, the one created later first
\* because its dueDate is earlier.
C7_Witness ==
  /\ resp.route = "list"
  /\ resp.status = 200
  /\ Len(resp.tasks) = 2
  /\ resp.tasks[1].id > resp.tasks[2].id
  /\ ~resp.tasks[1].dueDate.isNull
  /\ ~resp.tasks[2].dueDate.isNull
  /\ resp.tasks[1].dueDate.ms < resp.tasks[2].dueDate.ms
  /\ resp.tasks[1].dateCreated > resp.tasks[2].dateCreated

\* C8 as claimed: a list request with sortBy=dateCreated returns the
\* surviving tasks in the order in which their create requests completed.
Pos(q, id) == CHOOSE i \in 1..Len(q) : q[i].id = id

C8_InsertionOrder ==
  \A r \in ListOutcomes(store, "dateCreated", TRUE) :
    \A i, j \in 1..Len(saved) :
      (i < j /\ saved[i].id \in Ids(store) /\ saved[j].id \in Ids(store)) =>
        Pos(r.tasks, saved[i].id) < Pos(r.tasks, saved[j].id)

\* C8 amended: a list request with sortBy=dateCreated returns the surviving
\* tasks ordered by the time each create request built its task: a task
\* built strictly earlier appears first, after any updates, completion
\* changes and deletes; tasks built in the same millisecond come in either
\* order.
BuiltAt(id) == saved[CHOOSE i \in 1..Len(saved) : saved[i].id = id].at

C8_BuildTimeOrder ==
  \A r \in ListOutcomes(store, "dateCreated", TRUE) :
    /\ IsListing(r.tasks, store)
    /\ \A i, j \in 1..Len(r.tasks) :
         BuiltAt(r.tasks[i].id) < BuiltAt(r.tasks[j].id) => i < j

\* C8 witness: a list of two tasks built at different times, the earlier one
\* updated and completed since and due later.
C8_Witness ==
  /\ resp.route = "list"
  /\ resp.status = 200
  /\ Len(resp.tasks) = 2
  /\ resp.tasks[1].dateCreated < resp.tasks[2].dateCreated
  /\ resp.tasks[1].completed = "true"
  /\ resp.tasks[1].title = "s:"
  /\ ~resp.tasks[1].dueDate.isNull
  /\ ~resp.tasks[2].dueDate.isNull
  /\ resp.tasks[1].dueDate.ms > resp.tasks[2].dueDate.ms

\* C9: a served set-completion request with a boolean, on an existing task
\* and through either route, answers 200 with the task as stored after the
\* update: completed is the supplied boolean, the other five fields and all
\* other tasks are unchanged; and both routes leave the same store and
\* return the same task for the same id and body.
SetCompletionPost(o, old, body) ==
  /\ o.resp.status = 200
  /\ Len(o.resp.tasks) = 1
  /\ o.resp.tasks[1] \in o.store
  /\ o.store \ {o.resp.tasks[1]} = store \ {old}
  /\ o.resp.tasks[1].completed = body.completed
  /\ o.resp.tasks[1].id = old.id
  /\ o.resp.tasks[1].title = old.title
  /\ o.resp.tasks[1].description = old.description
  /\ o.resp.tasks[1].dueDate = old.dueDate
  /\ o.resp.tasks[1].dateCreated = old.dateCreated

WellTypedRequest(r) ==
  /\ IsObjectId(r.id)
  /\ DateCastable(r.body.dueDate)
  /\ r.route \in SetRoutes => r.body.completed \in {"true", "false"}

C10_ConcurrentRequests ==
  \A x, y \in done :
    (/\ done = {x, y}
     /\ x # y
     /\ x.req.id = y.req.id
     /\ WellTypedRequest(x.req)
     /\ WellTypedRequest(y.req)) =>
      /\ (x.req.route = "update" /\ y.req.route \in SetRoutes
          /\ x.existed /\ y.existed) =>
           /\ x.resp.status = 200
           /\ y.resp.status = 200
           /\ \E t \in ById(store, x.req.id) :
                /\ x.req.body.title # "undefined" =>
                     t.title = CastString(x.req.body.title)
                /\ x.req.body.description # "undefined" =>
                     t.description = CastString(x.req.body.description)
                /\ x.req.body.dueDate # "undefined" =>
                     t.dueDate = CastDate(x.req.body.dueDate)
                /\ t.completed = y.req.body.completed
      /\ (x.req.route # "delete" /\ y.req.route = "delete" /\ y.existed) =>
           /\ y.resp.status = 200
           /\ x.resp.status \in {200, 404}
           /\ x.resp.status = 200 <=> x.existed
           /\ x.resp.status = 200 =>
                (Len(x.resp.tasks) = 1 /\ x.resp.tasks[1].id = x.req.id)
           /\ ById(store, x.req.id) = {}

\* C10 witness: an update and a set-completion overlapped on a task, the
\* set-completion's store call ran first, and both were answered 200.
C10_Witness ==
  \E x, y \in done :
    /\ done = {x, y}
    /\ x.req.route = "update"
    /\ y.req.route = "complete"
    /\ x.req.id = y.req.id
    /\ y.overlapped
    /\ x.resp.status = 200
    /\ y.resp.status = 200
    /\ y.req.body.completed = "true"
    /\ x.req.body.title = "s:"
    /\ \E t \in store : t.title = "s:" /\ t.completed = "true"
====
